---- MODULE Spec2Model ----
(***************************************************************************)
(* wavrec: loopback capture to a WAV file.                                 *)
(*                                                                         *)
(* These specifications share this module:                                 *)
(*   SpecEnc      the format descriptor and the WAV encoder (audio.rs,     *)
(*                wave.rs), applied to inputs drawn in EncInit;            *)
(*   Spec         one session of run(): interrupt handler, capture thread  *)
(*                (any AudioLoopback), processing loop, staging writer,    *)
(*                final file (lib.rs, main.rs, wave.rs);                   *)
(*   SpecLive     Spec with the processing loop kept scheduled;            *)
(*   SpecCapture  WasapiLoopbackRecorder create + capture (winapi.rs);     *)
(*   SpecWriter   a WaveWriter driven by any caller: open, then write and  *)
(*                commit in any order, then close (wave.rs);               *)
(*   SpecCli      Args::file_name applied to drawn names (cli.rs).         *)
(***************************************************************************)
EXTENDS Integers, Sequences, FiniteSets, TLC

VARIABLES
    overflow_checks,  \* build profile: TRUE = arithmetic overflow panics
    \* SpecEnc: inputs and outputs of the pure functions
    e_pc, e_fmt, e_size, e_payload, e_out,
    \* Spec: one session of run()
    pc,          \* position of the main thread in main / run / run_processing_loop
    created,     \* loopback_stream exists: LoopbackRecorder::create returned Ok
    is_running,  \* the shared AtomicBool
    handler_set, \* the Ctrl-C handler is installed
    chan,        \* messages sent and not yet received, oldest first
    tx,          \* the capture thread: "unspawned", "running" or "returned"
    fmt,         \* the AudioFormatInfo the capture source reports
    wr,          \* the WaveWriter: its BufWriter's buffer and bytes_written
    tmp,         \* the scratch file
    dest,        \* the destination file
    result,      \* what run() returned: "none", "ok", "err" or "panic"
    exit_code,   \* the process exit status, -1 while running
    sent,        \* history: every message sent, in send order
    received,    \* history: every message try_recv returned, in order
    writes,      \* history: every WaveWriter::write call and what it returned
    ops,         \* history: open / commit / close calls with their outcome
    \* SpecCapture: WasapiLoopbackRecorder
    c_pc,        \* position in create / capture
    c_req,       \* the RequestedAudioFormatInfo
    c_mix,       \* the device's mix format
    c_rec,       \* the recorder create returned: audio_format, wasapi_format
    c_q,         \* sample_queue.len()
    c_stream,    \* the device stream: "idle", "started" or "stopped"
    c_rx,        \* the Receiver of the transmitter still exists
    c_sent,      \* history: the messages capture sent, in order
    c_reads,     \* history: number of device reads
    c_read_failed, \* history: a device read failed
    c_ret,       \* what create / capture returned: "none", "ok" or "err"
    \* SpecWriter: one WaveWriter and its two files
    w_pc,        \* "new" before open, "open", "closed", or "failed" (open failed)
    w_fmt,       \* audio_format_info
    w_wr,        \* the BufWriter's buffer and bytes_written
    w_tmp,       \* the scratch file
    w_dest,      \* the destination file
    w_log,       \* history: each call, its outcome and the files after it
    \* SpecCli: Args::file_name
    n_pc,        \* "input", "once" (file_name applied), "twice" (applied again)
    n_name,      \* Args.file_name
    n_out        \* the String returned

enc_vars == <<e_pc, e_fmt, e_size, e_payload, e_out>>
run_vars == <<pc, created, is_running, handler_set, chan, tx, fmt, wr, tmp, dest, result,
              exit_code, sent, received, writes, ops>>
cap_vars == <<c_pc, c_req, c_mix, c_rec, c_q, c_stream, c_rx, c_sent, c_reads,
              c_read_failed, c_ret>>
ww_vars == <<w_pc, w_fmt, w_wr, w_tmp, w_dest, w_log>>
cli_vars == <<n_pc, n_name, n_out>>
vars == <<overflow_checks, enc_vars, run_vars, cap_vars, ww_vars, cli_vars>>

(***************************************************************************)
(* Fixed-width unsigned integers.  u32 and usize values can exceed what    *)
(* TLC's integers hold, so a value is a little-endian sequence of          *)
(* 16-bit limbs: u16 = 1 limb, u32 = 2 limbs, usize = 4 limbs.             *)
(***************************************************************************)
Limb == 256 * 256

RECURSIVE ToLimbs(_, _)
\* the n-limb representation of a small natural number v
ToLimbs(v, n) ==
    IF n = 0 THEN <<>> ELSE <<v % Limb>> \o ToLimbs(v \div Limb, n - 1)

U32(v) == ToLimbs(v, 2)
Usize(v) == ToLimbs(v, 4)

\* zero-extension to n limbs (a lossless `as` cast to a wider type)
Widen(x, n) == x \o [i \in 1..(n - Len(x)) |-> 0]

\* truncation to n limbs (a lossy `as` cast to a narrower type)
Truncate(x, n) == SubSeq(x, 1, n)

RECURSIVE MulLimbs(_, _, _)
\* x * k + carry, exact: the result is one limb longer than x
MulLimbs(x, k, carry) ==
    IF x = <<>> THEN <<carry>>
    ELSE LET t == Head(x) * k + carry
         IN  <<t % Limb>> \o MulLimbs(Tail(x), k, t \div Limb)

RECURSIVE AddLimbs(_, _)
\* x + k, exact: the result is one limb longer than x
AddLimbs(x, k) ==
    IF x = <<>> THEN <<k>>
    ELSE LET t == Head(x) + k
         IN  <<t % Limb>> \o AddLimbs(Tail(x), t \div Limb)

RECURSIVE DivLimbs(_, _, _)
\* the quotient of (rem * Limb^Len(x) + x) by d, for rem < d
DivLimbs(x, d, rem) ==
    IF x = <<>> THEN <<>>
    ELSE LET n == Len(x)
             t == rem * Limb + x[n]
         IN  DivLimbs(SubSeq(x, 1, n - 1), d, t % d) \o <<t \div d>>

\* u32 * u32 in Rust: the wrapped product and whether it overflowed
u32_mul(x, k) ==
    LET e == MulLimbs(x, k, 0)
    IN  [val |-> Truncate(e, 2), overflow |-> e[3] # 0]

RECURSIVE to_le_bytes(_)
\* uN::to_le_bytes: least significant byte first
to_le_bytes(x) ==
    IF x = <<>> THEN <<>>
    ELSE <<Head(x) % 256, Head(x) \div 256>> \o to_le_bytes(Tail(x))

RECURSIVE from_le_bytes(_)
\* uN::from_le_bytes
from_le_bytes(b) ==
    IF b = <<>> THEN <<>>
    ELSE <<b[1] + 256 * b[2]>> \o from_le_bytes(SubSeq(b, 3, Len(b)))

(***************************************************************************)
(* audio.rs: SampleFormat and AudioFormatInfo                              *)
(***************************************************************************)
SampleFormat == {"Int16", "Int24", "Int32", "Float32"}

SampleFormat_bit_depth(sf) ==
    CASE sf = "Int16" -> 16
      [] sf = "Int24" -> 24
      [] sf = "Int32" -> 32
      [] sf = "Float32" -> 32

\* mutant: every encoding reported as integer PCM
Mutant_type_format_header(sf) == 1

SampleFormat_type_format_header(sf) ==
    IF sf \in {"Int16", "Int24", "Int32"} THEN 1 ELSE 3

\* AudioFormatInfo { sample_rate: u32, num_channels: u8, format }
AudioFormatInfo(sr, ch, sf) ==
    [sample_rate |-> sr, num_channels |-> ch, format |-> sf]

bit_depth(f) == SampleFormat_bit_depth(f.format)

type_format_header(f) == SampleFormat_type_format_header(f.format)

\* (sample_rate * bit_depth as u32 * num_channels as u32) / 8, in u32:
\* an overflowing product panics when overflow checks are on and wraps
\* modulo 2^32 otherwise
bytes_per_second(f) ==
    LET a == u32_mul(f.sample_rate, bit_depth(f))
        b == u32_mul(a.val, f.num_channels)
    IN  IF overflow_checks /\ (a.overflow \/ b.overflow)
        THEN [panic |-> TRUE, val |-> U32(0)]
        ELSE [panic |-> FALSE, val |-> DivLimbs(b.val, 8, 0)]

\* (bit_depth as u16 * num_channels as u16) / 8, in u16 (at most 32 * 255)
block_alignment(f) == ((bit_depth(f) * f.num_channels) % Limb) \div 8

(***************************************************************************)
(* wave.rs: WaveHeader, WaveData, WaveFile                                 *)
(***************************************************************************)
RIFF == <<82, 73, 70, 70>>
WAVE == <<87, 65, 86, 69>>
FMT_ == <<102, 109, 116, 32>>
DATA == <<100, 97, 116, 97>>

BYTES_IN_HEADER == 44

\* WaveHeader::create(format, data_size: usize)
WaveHeader_create(f, data_size) ==
    LET bps == bytes_per_second(f)
    IN  [panic |-> bps.panic,
         file_description_header |-> RIFF,
         file_size |->
            to_le_bytes(Truncate(AddLimbs(data_size, BYTES_IN_HEADER - 8), 2)),
         wave_description_header |-> WAVE,
         fmt_description |-> FMT_,
         wave_description_chunk_size |-> to_le_bytes(U32(16)),
         type_format |-> to_le_bytes(ToLimbs(type_format_header(f), 1)),
         num_channels |-> to_le_bytes(ToLimbs(f.num_channels, 1)),
         sample_rate |-> to_le_bytes(f.sample_rate),
         bytes_per_second |-> to_le_bytes(bps.val),
         block_alignment |-> to_le_bytes(ToLimbs(block_alignment(f), 1)),
         bit_depth |-> to_le_bytes(ToLimbs(bit_depth(f), 1))]

\* WaveHeader::as_bytes
WaveHeader_as_bytes(h) ==
    h.file_description_header \o h.file_size \o h.wave_description_header
      \o h.fmt_description \o h.wave_description_chunk_size \o h.type_format
      \o h.num_channels \o h.sample_rate \o h.bytes_per_second
      \o h.block_alignment \o h.bit_depth

\* a Vec<u8>: its len() as a usize and its bytes.  Of a vector too long to
\* write out (VeryLongPayloads) bytes holds the leading bytes only.
Vec(s) == [len |-> Usize(Len(s)), bytes |-> s]

\* WaveData::create(data: Vec<u8>)
WaveData_create(data) ==
    [data_header |-> DATA,
     size_in_bytes |-> to_le_bytes(Truncate(data.len, 2)),
     data |-> data.bytes]

\* WaveData::as_bytes
WaveData_as_bytes(d) == d.data_header \o d.size_in_bytes \o d.data

\* WaveFile::create(data, format)
WaveFile_create(data, f) ==
    LET header == WaveHeader_create(f, data.len)
    IN  [panic |-> header.panic, header |-> header, data |-> WaveData_create(data)]

\* the byte stream WaveFile::write sends to the destination file
WaveFile_bytes(wav) ==
    WaveHeader_as_bytes(wav.header) \o WaveData_as_bytes(wav.data)

(***************************************************************************)
(* SpecEnc: the pure functions above applied to drawn inputs               *)
(***************************************************************************)
MaxPayload == 2
LongPayload == 258

PayloadBytes == {0, 255}

\* sample rates: the smallest, the usual ones, 2^27 and u32::MAX
SampleRates ==
    {U32(1), U32(44100), U32(48000), U32(96000), <<0, 2048>>, <<65535, 65535>>}

ChannelCounts == {1, 2, 8, 255}

\* payload lengths (usize): small ones, 2^32 - 37, 2^32 - 36 and 2^32 + 64
DataSizes ==
    {Usize(0), Usize(100), Usize(70000),
     <<65499, 65535, 0, 0>>, <<65500, 65535, 0, 0>>, <<64, 0, 1, 0>>}

\* payloads of 2^32 - 36 and of 2^32 bytes, by their leading bytes
VeryLongPayloads ==
    {[len |-> <<65500, 65535, 0, 0>>, bytes |-> <<1, 2>>],
     [len |-> <<0, 0, 1, 0>>, bytes |-> <<1, 2>>]}

Payloads ==
    {Vec(s) : s \in UNION {[1..n -> PayloadBytes] : n \in 0..MaxPayload}}
      \cup {Vec([i \in 1..LongPayload |-> i % 256])}
      \cup VeryLongPayloads

NoOut ==
    [panic |-> FALSE, bit_depth |-> 0, type_code |-> 0, bps |-> U32(0),
     ba |-> 0, bytes |-> <<>>]

\* Option<T>: None, or Some(x)
None == <<>>
Some(x) == <<x>>

NoRecorder ==
    [audio_format |-> AudioFormatInfo(U32(1), 1, "Int16"),
     wasapi_format |-> [bits |-> 0, type |-> "Int", rate |-> 0, channels |-> 0]]

\* no recorder exists outside SpecCapture
CapIdle ==
    /\ c_pc = "idle"
    /\ c_req = [sample_rate |-> None, num_channels |-> None, format |-> None]
    /\ c_mix = [bits |-> 32, type |-> "Float", rate |-> 48000, channels |-> 2]
    /\ c_rec = NoRecorder
    /\ c_q = 0
    /\ c_stream = "idle"
    /\ c_rx = TRUE
    /\ c_sent = <<>>
    /\ c_reads = 0
    /\ c_read_failed = FALSE
    /\ c_ret = "none"

\* no WaveWriter is driven outside SpecWriter
WriterIdle ==
    /\ w_pc = "idle"
    /\ w_fmt = AudioFormatInfo(U32(1), 1, "Int16")
    /\ w_wr = [buf |-> <<>>, bytes_written |-> 0]
    /\ w_tmp = [exists |-> FALSE, data |-> <<>>]
    /\ w_dest = [exists |-> FALSE, data |-> <<>>]
    /\ w_log = <<>>

\* no file name is normalised outside SpecCli
CliIdle ==
    /\ n_pc = "idle"
    /\ n_name = <<>>
    /\ n_out = <<>>

\* the session is idle outside Spec
RunIdle ==
    /\ pc = "idle"
    /\ created = FALSE
    /\ is_running = TRUE
    /\ handler_set = FALSE
    /\ chan = <<>>
    /\ tx = "unspawned"
    /\ fmt = AudioFormatInfo(U32(1), 1, "Int16")
    /\ wr = [buf |-> <<>>, bytes_written |-> 0]
    /\ tmp = [exists |-> FALSE, data |-> <<>>]
    /\ dest = [exists |-> FALSE, data |-> <<>>]
    /\ result = "none"
    /\ exit_code = -1
    /\ sent = <<>>
    /\ received = <<>>
    /\ writes = <<>>
    /\ ops = <<>>

EncInit ==
    /\ RunIdle
    /\ CapIdle
    /\ WriterIdle
    /\ CliIdle
    /\ overflow_checks \in BOOLEAN
    /\ e_pc = "input"
    /\ e_fmt \in {AudioFormatInfo(sr, ch, sf) :
                    sr \in SampleRates, ch \in ChannelCounts, sf \in SampleFormat}
    /\ e_size \in DataSizes
    /\ e_payload \in Payloads
    /\ e_out = NoOut

\* the four derivations of AudioFormatInfo
EncDerive ==
    /\ e_pc = "input"
    /\ e_pc' = "derived"
    /\ LET bps == bytes_per_second(e_fmt)
       IN  e_out' = [NoOut EXCEPT !.panic = bps.panic,
                                  !.bit_depth = bit_depth(e_fmt),
                                  !.type_code = type_format_header(e_fmt),
                                  !.bps = bps.val,
                                  !.ba = block_alignment(e_fmt)]
    /\ UNCHANGED <<overflow_checks, ww_vars, cli_vars, e_fmt, e_size, e_payload, run_vars, cap_vars>>

\* WaveHeader::create(format, data_size).as_bytes()
EncHeader ==
    /\ e_pc = "input"
    /\ e_pc' = "header"
    /\ LET h == WaveHeader_create(e_fmt, e_size)
       IN  e_out' = [NoOut EXCEPT !.panic = h.panic,
                                  !.bytes = IF h.panic THEN <<>>
                                            ELSE WaveHeader_as_bytes(h)]
    /\ UNCHANGED <<overflow_checks, ww_vars, cli_vars, e_fmt, e_size, e_payload, run_vars, cap_vars>>

\* WaveFile::create(payload, format), header bytes then data bytes
EncFile ==
    /\ e_pc = "input"
    /\ e_pc' = "file"
    /\ LET wav == WaveFile_create(e_payload, e_fmt)
       IN  e_out' = [NoOut EXCEPT !.panic = wav.panic,
                                  !.bytes = IF wav.panic THEN <<>>
                                            ELSE WaveFile_bytes(wav)]
    /\ UNCHANGED <<overflow_checks, ww_vars, cli_vars, e_fmt, e_size, e_payload, run_vars, cap_vars>>

EncNext == EncDerive \/ EncHeader \/ EncFile

SpecEnc == EncInit /\ [][EncNext]_vars

(***************************************************************************)
(* The files and the BufWriter under WaveWriter (wave.rs).  An I/O call    *)
(* can fail, and a single write can accept only part of its buffer: each   *)
(* operator below gives the set of outcomes the operating system allows.   *)
(***************************************************************************)
BufCapacity == 2

Take(s, k) == SubSeq(s, 1, k)
Drop(s, k) == SubSeq(s, k + 1, Len(s))

\* how many bytes of b reached the file before a failing write_all gave up
PartialLens(b) == {k \in {0, Len(b) - 1} : k >= 0 /\ k < Len(b)}

\* File::write(data): one attempt; it accepts n >= 1 bytes of a non-empty
\* buffer (all of them, or fewer), or fails (ret = -1)
File_write(file, data) ==
    {[file |-> file \o Take(data, n), ret |-> n] :
        n \in (IF data = <<>> THEN {0} ELSE 1..Len(data))}
      \cup {[file |-> file, ret |-> -1]}

\* mutant: a flush that writes the buffer out and keeps it
Mutant_BufWriter_flush_buf(buf, file) ==
    {[buf |-> buf, file |-> file \o buf, ok |-> TRUE]}

\* BufWriter::flush_buf: write_all of the buffer; on failure the bytes
\* already written leave the buffer
BufWriter_flush_buf(buf, file) ==
    {[buf |-> <<>>, file |-> file \o buf, ok |-> TRUE]}
      \cup {[buf |-> Drop(buf, k), file |-> file \o Take(buf, k), ok |-> FALSE] :
                k \in PartialLens(buf)}

\* BufWriter::write(data): buffered when data fits in the spare capacity;
\* otherwise the buffer is flushed if data does not fit, and data of at least
\* the capacity goes to the file in ONE File::write, whose count is returned
BufWriter_write(buf, file, data) ==
    LET spare == BufCapacity - Len(buf)
    IN  IF Len(data) < spare
        THEN {[buf |-> buf \o data, file |-> file, ret |-> Len(data)]}
        ELSE LET pre == IF Len(data) > spare
                        THEN BufWriter_flush_buf(buf, file)
                        ELSE {[buf |-> buf, file |-> file, ok |-> TRUE]}
             IN  UNION {
                   IF ~f.ok
                   THEN {[buf |-> f.buf, file |-> f.file, ret |-> -1]}
                   ELSE IF Len(data) >= BufCapacity
                   THEN {[buf |-> f.buf, file |-> o.file, ret |-> o.ret] :
                            o \in File_write(f.file, data)}
                   ELSE {[buf |-> f.buf \o data, file |-> f.file,
                          ret |-> Len(data)]} : f \in pre}

\* WaveWriter::open: File::create of a fresh scratch file, or an error
WaveWriter_open ==
    {[ok |-> TRUE, wr |-> [buf |-> <<>>, bytes_written |-> 0],
      tmp |-> [exists |-> TRUE, data |-> <<>>]],
     [ok |-> FALSE, wr |-> [buf |-> <<>>, bytes_written |-> 0],
      tmp |-> [exists |-> FALSE, data |-> <<>>]]}

\* WaveWriter::write(data):
\*   self.bytes_written += self.buffered_writer.write(&data)?; Ok(())
WaveWriter_write(w, t, data) ==
    {[wr |-> [buf |-> o.buf,
              bytes_written |-> IF o.ret >= 0 THEN w.bytes_written + o.ret
                                ELSE w.bytes_written],
      tmp |-> [t EXCEPT !.data = o.file],
      ret |-> o.ret] : o \in BufWriter_write(w.buf, t.data, data)}

\* dropping the WaveWriter drops its BufWriter, which flushes what it can
\* and ignores the result
WaveWriter_drop(w, t) ==
    {[wr |-> [w EXCEPT !.buf = o.buf], tmp |-> [t EXCEPT !.data = o.file]] :
        o \in BufWriter_flush_buf(w.buf, t.data)}

\* WaveFile::write(file_name): File::create, write_all(header),
\* write_all(data); a failing step leaves what was written before it
WaveFile_write(wav, d) ==
    LET header_bytes == WaveHeader_as_bytes(wav.header)
        data_bytes == WaveData_as_bytes(wav.data)
    IN  {[ok |-> FALSE, dest |-> d]}
          \cup {[ok |-> FALSE,
                 dest |-> [exists |-> TRUE, data |-> Take(header_bytes, k)]] :
                    k \in PartialLens(header_bytes)}
          \cup {[ok |-> FALSE,
                 dest |-> [exists |-> TRUE,
                           data |-> header_bytes \o Take(data_bytes, k)]] :
                    k \in PartialLens(data_bytes)}
          \cup {[ok |-> TRUE,
                 dest |-> [exists |-> TRUE, data |-> header_bytes \o data_bytes]]}

\* WaveWriter::commit: flush, read the scratch file back, WaveFile::create,
\* WaveFile::write.  res is "ok", "err" or "panic".
WaveWriter_commit(w, t, d, f) ==
    UNION {
      IF ~fl.ok
      THEN {[res |-> "err", wr |-> [w EXCEPT !.buf = fl.buf],
             tmp |-> [t EXCEPT !.data = fl.file], dest |-> d]}
      ELSE LET w2 == [w EXCEPT !.buf = fl.buf]
               t2 == [t EXCEPT !.data = fl.file]
               wav == WaveFile_create(Vec(t2.data), f)
           IN  \* File::open(tmp)?.read_to_end(..)? fails
               {[res |-> "err", wr |-> w2, tmp |-> t2, dest |-> d]}
                 \cup (IF ~t2.exists THEN {}
                       ELSE IF wav.panic
                       THEN {[res |-> "panic", wr |-> w2, tmp |-> t2, dest |-> d]}
                       ELSE {[res |-> IF o.ok THEN "ok" ELSE "err",
                              wr |-> w2, tmp |-> t2, dest |-> o.dest] :
                                o \in WaveFile_write(wav, d)})
      : fl \in BufWriter_flush_buf(w.buf, t.data)}

\* mutant: close that reports Ok and removes nothing
Mutant_WaveWriter_close(t) == {[ok |-> TRUE, tmp |-> t]}

\* WaveWriter::close: remove the scratch file if it exists
WaveWriter_close(t) ==
    IF t.exists
    THEN {[ok |-> TRUE, tmp |-> [t EXCEPT !.exists = FALSE]],
          [ok |-> FALSE, tmp |-> t]}
    ELSE {[ok |-> TRUE, tmp |-> t]}

(***************************************************************************)
(* Spec: one session (lib.rs, main.rs).  The capture thread is any         *)
(* AudioLoopback::capture: it sends AudioData and Error messages in any    *)
(* order and returns at any time.                                          *)
(***************************************************************************)
MaxSend == 3

Chunks == {<<1>>, <<2, 3, 4>>}

SessionFormats ==
    {AudioFormatInfo(U32(48000), 2, "Int16"),
     AudioFormatInfo(U32(44100), 1, "Float32")}

AudioData(chunk) == [kind |-> "data", bytes |-> chunk]
ErrorMessage == [kind |-> "error", bytes |-> <<>>]

\* the Receiver lives from mpsc::channel() in run until run returns
rx_alive == pc \notin {"returned", "exited"}

EncIdle ==
    /\ e_pc = "idle"
    /\ e_fmt = AudioFormatInfo(U32(1), 1, "Int16")
    /\ e_size = Usize(0)
    /\ e_payload = Vec(<<>>)
    /\ e_out = NoOut

Init ==
    /\ EncIdle
    /\ CapIdle
    /\ WriterIdle
    /\ CliIdle
    /\ overflow_checks = FALSE
    /\ pc = "create"
    /\ created = FALSE
    /\ is_running = TRUE
    /\ handler_set = FALSE
    /\ chan = <<>>
    /\ tx = "unspawned"
    /\ fmt \in SessionFormats
    /\ wr = [buf |-> <<>>, bytes_written |-> 0]
    /\ tmp = [exists |-> FALSE, data |-> <<>>]
    /\ dest = [exists |-> FALSE, data |-> <<>>]
    /\ result = "none"
    /\ exit_code = -1
    /\ sent = <<>>
    /\ received = <<>>
    /\ writes = <<>>
    /\ ops = <<>>

\* mutant: run goes on although creation failed
Mutant_RunCreate ==
    /\ pc = "create"
    /\ created' \in BOOLEAN
    /\ pc' = "set_handler"
    /\ UNCHANGED <<overflow_checks, ww_vars, cli_vars, enc_vars, cap_vars, is_running,
                   handler_set, chan, tx, fmt, wr, tmp, dest, result, exit_code,
                   sent, received, writes, ops>>

\* run: LoopbackRecorder::create(requested_format)?
RunCreate ==
    /\ pc = "create"
    /\ \E ok \in BOOLEAN :
          /\ created' = ok
          /\ IF ok THEN pc' = "set_handler" /\ result' = result
             ELSE pc' = "returned" /\ result' = "err"
    /\ UNCHANGED <<overflow_checks, ww_vars, cli_vars, enc_vars, cap_vars, is_running, handler_set, chan, tx, fmt, wr, tmp, dest,
                   exit_code, sent, received, writes, ops>>

\* run: setup_terminate_handler(..)?
SetupTerminateHandler ==
    /\ pc = "set_handler"
    /\ \E ok \in BOOLEAN :
          IF ok THEN pc' = "spawn" /\ result' = result /\ handler_set' = TRUE
          ELSE pc' = "returned" /\ result' = "err" /\ handler_set' = FALSE
    /\ UNCHANGED <<overflow_checks, ww_vars, cli_vars, enc_vars, cap_vars, created, is_running, chan, tx, fmt, wr, tmp, dest, exit_code, sent,
                   received, writes, ops>>

\* mutant: a handler that toggles the flag
Mutant_Interrupt ==
    /\ handler_set
    /\ pc # "exited"
    /\ is_running' = ~is_running
    /\ UNCHANGED <<overflow_checks, ww_vars, cli_vars, enc_vars, cap_vars, created, pc, handler_set, chan, tx, fmt, wr, tmp, dest, result,
                   exit_code, sent, received, writes, ops>>

\* the Ctrl-C handler: is_running_flag.store(false)
Interrupt ==
    /\ handler_set
    /\ pc # "exited"
    /\ is_running' = FALSE
    /\ UNCHANGED <<overflow_checks, ww_vars, cli_vars, enc_vars, cap_vars, created, pc, handler_set, chan, tx, fmt, wr, tmp, dest, result,
                   exit_code, sent, received, writes, ops>>

\* run: run_audio_thread(..): thread::spawn of capture(transmitter)
RunAudioThread ==
    /\ pc = "spawn"
    /\ pc' = "open"
    /\ tx' = "running"
    /\ UNCHANGED <<overflow_checks, ww_vars, cli_vars, enc_vars, cap_vars, created, is_running, handler_set, chan, fmt, wr, tmp, dest, result,
                   exit_code, sent, received, writes, ops>>

\* capture thread: transmitter.send(message)?; a send fails once the
\* receiver is dropped and capture returns the error
CaptureSend(m) ==
    /\ tx = "running"
    /\ pc # "exited"
    /\ Len(sent) < MaxSend
    /\ IF rx_alive
       THEN chan' = Append(chan, m) /\ sent' = Append(sent, m) /\ tx' = tx
       ELSE chan' = chan /\ sent' = sent /\ tx' = "returned"
    /\ UNCHANGED <<overflow_checks, ww_vars, cli_vars, enc_vars, cap_vars, created, pc, is_running, handler_set, fmt, wr, tmp, dest, result,
                   exit_code, received, writes, ops>>

CaptureSendData == \E chunk \in Chunks : CaptureSend(AudioData(chunk))

CaptureSendError == CaptureSend(ErrorMessage)

\* capture thread: capture returns and the Sender is dropped
CaptureReturn ==
    /\ tx = "running"
    /\ pc # "exited"
    /\ tx' = "returned"
    /\ UNCHANGED <<overflow_checks, ww_vars, cli_vars, enc_vars, cap_vars, created, pc, is_running, handler_set, chan, fmt, wr, tmp, dest, result,
                   exit_code, sent, received, writes, ops>>

\* run_processing_loop: WaveWriter::open(file_name, format)?
WriterOpen ==
    /\ pc = "open"
    /\ \E o \in WaveWriter_open :
          /\ wr' = o.wr
          /\ tmp' = o.tmp
          /\ ops' = Append(ops, IF o.ok THEN "open" ELSE "open_err")
          /\ IF o.ok THEN pc' = "check" /\ result' = result
             ELSE pc' = "returned" /\ result' = "err"
    /\ UNCHANGED <<overflow_checks, ww_vars, cli_vars, enc_vars, cap_vars, created, is_running, handler_set, chan, tx, fmt, dest, exit_code,
                   sent, received, writes>>

\* mutant: a loop that also ends when the capture thread has returned
Mutant_LoopCheckSender ==
    /\ pc = "check"
    /\ pc' = IF is_running /\ tx # "returned" THEN "recv" ELSE "commit"
    /\ UNCHANGED <<overflow_checks, ww_vars, cli_vars, enc_vars, cap_vars, created, is_running, handler_set, chan, tx, fmt, wr, tmp, dest, result,
                   exit_code, sent, received, writes, ops>>

\* mutant: a loop that never looks at is_running
Mutant_LoopCheck ==
    /\ pc = "check"
    /\ pc' = "recv"
    /\ UNCHANGED <<overflow_checks, ww_vars, cli_vars, enc_vars, cap_vars, created, is_running, handler_set, chan, tx, fmt, wr, tmp, dest, result,
                   exit_code, sent, received, writes, ops>>

\* run_processing_loop: while is_running.load(..)
LoopCheck ==
    /\ pc = "check"
    /\ pc' = IF is_running THEN "recv" ELSE "commit"
    /\ UNCHANGED <<overflow_checks, ww_vars, cli_vars, enc_vars, cap_vars, created, is_running, handler_set, chan, tx, fmt, wr, tmp, dest, result,
                   exit_code, sent, received, writes, ops>>

\* mutant: a disconnected channel is taken for a capture error
Mutant_LoopRecv ==
    /\ pc = "recv"
    /\ pc' = "check"
    /\ IF chan = <<>>
       THEN /\ is_running' = (is_running /\ tx # "returned")
            /\ UNCHANGED <<chan, wr, tmp, received, writes>>
       ELSE /\ chan' = Tail(chan)
            /\ received' = Append(received, Head(chan))
            /\ IF Head(chan).kind = "data"
               THEN /\ \E o \in WaveWriter_write(wr, tmp, Head(chan).bytes) :
                          /\ wr' = o.wr
                          /\ tmp' = o.tmp
                          /\ writes' = Append(writes,
                                [data |-> Head(chan).bytes, ret |-> o.ret])
                    /\ is_running' = is_running
               ELSE /\ is_running' = FALSE
                    /\ UNCHANGED <<wr, tmp, writes>>
    /\ UNCHANGED <<overflow_checks, ww_vars, cli_vars, enc_vars, cap_vars, created, handler_set, tx, fmt, dest, result, exit_code, sent, ops>>

\* run_processing_loop: let _ = receiver.try_recv().map(|chunk| ..):
\* nothing to receive (empty or disconnected) is ignored, and so is the
\* Result of file_writer.write
LoopRecv ==
    /\ pc = "recv"
    /\ pc' = "check"
    /\ IF chan = <<>>
       THEN UNCHANGED <<is_running, chan, wr, tmp, received, writes>>
       ELSE /\ chan' = Tail(chan)
            /\ received' = Append(received, Head(chan))
            /\ IF Head(chan).kind = "data"
               THEN /\ \E o \in WaveWriter_write(wr, tmp, Head(chan).bytes) :
                          /\ wr' = o.wr
                          /\ tmp' = o.tmp
                          /\ writes' = Append(writes,
                                [data |-> Head(chan).bytes, ret |-> o.ret])
                    /\ is_running' = is_running
               ELSE /\ is_running' = FALSE
                    /\ UNCHANGED <<wr, tmp, writes>>
    /\ UNCHANGED <<overflow_checks, ww_vars, cli_vars, enc_vars, cap_vars, created, handler_set, tx, fmt, dest, result, exit_code, sent, ops>>

\* run_processing_loop: file_writer.commit()?; on an error the function
\* returns at once and file_writer is dropped
Commit ==
    /\ pc = "commit"
    /\ \E o \in WaveWriter_commit(wr, tmp, dest, fmt) :
          /\ dest' = o.dest
          /\ ops' = Append(ops, IF o.res = "ok" THEN "commit" ELSE "commit_err")
          /\ IF o.res = "ok"
             THEN /\ pc' = "close"
                  /\ result' = result
                  /\ wr' = o.wr
                  /\ tmp' = o.tmp
             ELSE /\ pc' = "returned"
                  /\ result' = o.res
                  /\ \E dr \in WaveWriter_drop(o.wr, o.tmp) :
                        wr' = dr.wr /\ tmp' = dr.tmp
    /\ UNCHANGED <<overflow_checks, ww_vars, cli_vars, enc_vars, cap_vars, created, is_running, handler_set, chan, tx, fmt, exit_code, sent,
                   received, writes>>

\* mutant: the loop commits once more after close
Mutant_Close ==
    /\ pc = "close"
    /\ pc' = "commit"
    /\ \E o \in WaveWriter_close(tmp) :
          /\ tmp' = o.tmp
          /\ ops' = Append(ops, IF o.ok THEN "close" ELSE "close_err")
          /\ result' = IF o.ok THEN "ok" ELSE "err"
    /\ UNCHANGED <<overflow_checks, ww_vars, cli_vars, enc_vars, cap_vars, created, is_running, handler_set, chan, tx, fmt, wr, dest, exit_code,
                   sent, received, writes>>

\* run_processing_loop: file_writer.close()?; Ok(())
Close ==
    /\ pc = "close"
    /\ pc' = "returned"
    /\ \E o \in WaveWriter_close(tmp) :
          /\ tmp' = o.tmp
          /\ ops' = Append(ops, IF o.ok THEN "close" ELSE "close_err")
          /\ result' = IF o.ok THEN "ok" ELSE "err"
    /\ UNCHANGED <<overflow_checks, ww_vars, cli_vars, enc_vars, cap_vars, created, is_running, handler_set, chan, tx, fmt, wr, dest, exit_code,
                   sent, received, writes>>

\* main: if let Err(err) = run(args) { process::exit(1) }
MainExit ==
    /\ pc = "returned"
    /\ pc' = "exited"
    /\ exit_code' = (CASE result = "ok" -> 0
                       [] result = "err" -> 1
                       [] result = "panic" -> 101)
    /\ UNCHANGED <<overflow_checks, ww_vars, cli_vars, enc_vars, cap_vars, created, is_running, handler_set, chan, tx, fmt, wr, tmp, dest, result,
                   sent, received, writes, ops>>

Next ==
    \/ RunCreate
    \/ SetupTerminateHandler
    \/ Interrupt
    \/ RunAudioThread
    \/ CaptureSendData
    \/ CaptureSendError
    \/ CaptureReturn
    \/ WriterOpen
    \/ LoopCheck
    \/ LoopRecv
    \/ Commit
    \/ Close
    \/ MainExit

Spec == Init /\ [][Next]_vars

\* the steps of the processing loop; at most one of them is enabled at a time
ProcessingLoop == LoopCheck \/ LoopRecv

\* the processing thread keeps being scheduled: the next step of its loop is
\* taken once it can be (try_recv does not block).  Nothing is assumed of
\* the capture thread or of Ctrl-C.
LoopFairness == WF_vars(ProcessingLoop)

SpecLive == Init /\ [][Next]_vars /\ LoopFairness

(***************************************************************************)
(* SpecWriter: one WaveWriter (wave.rs) driven by any caller.  close takes *)
(* the writer by value, so nothing can be called after it.                 *)
(***************************************************************************)
MaxCalls == 4

\* one entry of the call history: the call, whether it returned Ok, and the
\* two files when it returned
Logged(op, ok, t, d) == [op |-> op, ok |-> ok, tmp |-> t, dest |-> d]

WriterInit ==
    /\ EncIdle
    /\ RunIdle
    /\ CapIdle
    /\ CliIdle
    /\ overflow_checks = FALSE
    /\ w_pc = "new"
    /\ w_fmt \in SessionFormats
    /\ w_wr = [buf |-> <<>>, bytes_written |-> 0]
    /\ w_tmp = [exists |-> FALSE, data |-> <<>>]
    /\ w_dest = [exists |-> FALSE, data |-> <<>>]
    /\ w_log = <<>>

\* WaveWriter::open(file_name, audio_format_info)
WOpen ==
    /\ w_pc = "new"
    /\ \E o \in WaveWriter_open :
          /\ w_wr' = o.wr
          /\ w_tmp' = o.tmp
          /\ w_pc' = IF o.ok THEN "open" ELSE "failed"
          /\ w_log' = Append(w_log, Logged("open", o.ok, o.tmp, w_dest))
    /\ UNCHANGED <<overflow_checks, enc_vars, run_vars, cap_vars, cli_vars,
                   w_fmt, w_dest>>

\* WaveWriter::write(data)
WWrite ==
    /\ w_pc = "open"
    /\ Len(w_log) <= MaxCalls
    /\ \E chunk \in Chunks :
          \E o \in WaveWriter_write(w_wr, w_tmp, chunk) :
             /\ w_wr' = o.wr
             /\ w_tmp' = o.tmp
             /\ w_log' = Append(w_log, Logged("write", o.ret >= 0, o.tmp, w_dest))
    /\ UNCHANGED <<overflow_checks, enc_vars, run_vars, cap_vars, cli_vars,
                   w_pc, w_fmt, w_dest>>

\* WaveWriter::commit(&mut self): the caller keeps the writer whatever it
\* returns
WCommit ==
    /\ w_pc = "open"
    /\ Len(w_log) <= MaxCalls
    /\ \E o \in WaveWriter_commit(w_wr, w_tmp, w_dest, w_fmt) :
          /\ w_wr' = o.wr
          /\ w_tmp' = o.tmp
          /\ w_dest' = o.dest
          /\ w_log' = Append(w_log, Logged("commit", o.res = "ok", o.tmp, o.dest))
    /\ UNCHANGED <<overflow_checks, enc_vars, run_vars, cap_vars, cli_vars,
                   w_pc, w_fmt>>

\* WaveWriter::close(self): the writer is consumed, and its BufWriter
\* dropped, whatever close returns
WClose ==
    /\ w_pc = "open"
    /\ w_pc' = "closed"
    /\ \E o \in WaveWriter_close(w_tmp) :
          \E dr \in WaveWriter_drop(w_wr, o.tmp) :
             /\ w_wr' = dr.wr
             /\ w_tmp' = dr.tmp
             /\ w_log' = Append(w_log, Logged("close", o.ok, dr.tmp, w_dest))
    /\ UNCHANGED <<overflow_checks, enc_vars, run_vars, cap_vars, cli_vars,
                   w_fmt, w_dest>>

WriterNext == WOpen \/ WWrite \/ WCommit \/ WClose

SpecWriter == WriterInit /\ [][WriterNext]_vars

(***************************************************************************)
(* SpecCapture: WasapiLoopbackRecorder (audio/sys/winapi.rs).  The device  *)
(* is the environment: its mix format, whether each call succeeds, and how *)
(* many bytes each read delivers.                                          *)
(***************************************************************************)
MaxReads == 3

chunk_size == 4096

RequestedFormats ==
    {[sample_rate |-> sr, num_channels |-> ch, format |-> sf] :
        sr \in {None, Some(44100)}, ch \in {None, Some(1), Some(3)},
        sf \in {None} \cup {Some(x) : x \in SampleFormat}}

MixFormats ==
    {[bits |-> b, type |-> "Int", rate |-> 48000, channels |-> ch] :
        b \in {8, 16, 24, 32}, ch \in {2, 6}}
      \cup {[bits |-> b, type |-> "Float", rate |-> 48000, channels |-> ch] :
                b \in {32, 64}, ch \in {2, 6}}

unwrap_or(opt, default) == IF opt = None THEN default ELSE opt[1]

\* RequestedAudioFormatInfo::bit_depth
Requested_bit_depth(req) ==
    IF req.format = None THEN None
    ELSE Some(SampleFormat_bit_depth(req.format[1]))

\* WaveFormat::get_blockalign of WaveFormat::new(bits, bits, type, rate, channels)
get_blockalign(wf) == (wf.channels * wf.bits) \div 8

\* WasapiLoopbackRecorder::create once the device and its mix format are
\* at hand: the recorder, or ok = FALSE for WasapiError::InvalidBitDepth
WasapiLoopbackRecorder_create(req, mix) ==
    LET bits == unwrap_or(Requested_bit_depth(req), mix.bits % 256)
        sample_rate == unwrap_or(req.sample_rate, mix.rate)
        num_channels == unwrap_or(req.num_channels, mix.channels % 256)
        sample_type ==
            CASE req.format \in {Some("Int16"), Some("Int24"), Some("Int32")} -> "Int"
              [] req.format = Some("Float32") -> "Float"
              [] OTHER -> mix.type
        wasapi_format == [bits |-> bits, type |-> sample_type,
                          rate |-> sample_rate, channels |-> num_channels]
    IN  IF sample_type = "Int" /\ bits \notin {16, 24, 32}
        THEN [ok |-> FALSE, rec |-> NoRecorder]
        ELSE [ok |-> TRUE,
              rec |-> [audio_format |->
                         AudioFormatInfo(U32(sample_rate), num_channels,
                             CASE sample_type = "Float" -> "Float32"
                               [] bits = 16 -> "Int16"
                               [] bits = 24 -> "Int24"
                               [] bits = 32 -> "Int32"),
                       wasapi_format |-> wasapi_format]]

\* mutant: a chunk of chunk_size bytes, not chunk_size blocks
Mutant_chunk_len(block_align) == chunk_size

\* capture: vec![0u8; block_align as usize * self.chunk_size]
chunk_len(block_align) == block_align * chunk_size

\* the byte counts one device read may deliver
ReadSizes(block_align) ==
    {0, 1, chunk_len(block_align), 2 * chunk_len(block_align) + 3}

CapInit ==
    /\ EncIdle
    /\ RunIdle
    /\ WriterIdle
    /\ CliIdle
    /\ overflow_checks = FALSE
    /\ c_pc = "create"
    /\ c_req \in RequestedFormats
    /\ c_mix \in MixFormats
    /\ c_rec = NoRecorder
    /\ c_q = 0
    /\ c_stream = "idle"
    /\ c_rx = TRUE
    /\ c_sent = <<>>
    /\ c_reads = 0
    /\ c_read_failed = FALSE
    /\ c_ret = "none"

\* create: a failing device call (initialize_mta, get_default_device,
\* get_iaudioclient, get_mixformat, get_subformat, get_periods,
\* initialize_client) or an invalid bit depth returns an error
CapCreate ==
    /\ c_pc = "create"
    /\ \E device_ok \in BOOLEAN :
          LET r == WasapiLoopbackRecorder_create(c_req, c_mix)
          IN  IF device_ok /\ r.ok
              THEN c_pc' = "setup" /\ c_rec' = r.rec /\ c_ret' = c_ret
              ELSE c_pc' = "create_failed" /\ c_rec' = c_rec /\ c_ret' = "err"
    /\ UNCHANGED <<overflow_checks, ww_vars, cli_vars, enc_vars, run_vars, c_req, c_mix, c_q,
                   c_stream, c_rx, c_sent, c_reads, c_read_failed>>

\* capture: get_bufferframecount()?, get_audiocaptureclient()?,
\* set_get_eventhandle()?, start_stream()?
CapSetup ==
    /\ c_pc = "setup"
    /\ \E device_ok \in BOOLEAN :
          IF device_ok
          THEN c_pc' = "drain" /\ c_stream' = "started" /\ c_ret' = c_ret
          ELSE c_pc' = "returned" /\ c_stream' = c_stream /\ c_ret' = "err"
    /\ UNCHANGED <<overflow_checks, ww_vars, cli_vars, enc_vars, run_vars, c_req, c_mix, c_rec, c_q,
                   c_rx, c_sent, c_reads, c_read_failed>>

\* mutant: a chunk is assembled whenever the queue is not empty
Mutant_CapChunk ==
    /\ c_pc = "drain"
    /\ LET n == chunk_len(get_blockalign(c_rec.wasapi_format))
       IN  /\ c_q > 0
           /\ IF c_q >= n
              THEN \* every pop_front was Some: send AudioData(chunk)
                   /\ c_q' = c_q - n
                   /\ c_stream' = c_stream
                   /\ IF c_rx
                      THEN /\ c_sent' = Append(c_sent, [kind |-> "data", len |-> n])
                           /\ c_pc' = c_pc
                           /\ c_ret' = c_ret
                      ELSE /\ c_sent' = c_sent
                           /\ c_pc' = "returned"
                           /\ c_ret' = "err"
              ELSE \* a pop_front was None
                   /\ c_q' = 0
                   /\ IF c_rx
                      THEN /\ c_sent' = Append(c_sent, [kind |-> "error", len |-> 0])
                           /\ \E stop_ok \in BOOLEAN :
                                 /\ c_stream' = IF stop_ok THEN "stopped" ELSE c_stream
                                 /\ c_ret' = IF stop_ok THEN "ok" ELSE "err"
                           /\ c_pc' = "returned"
                      ELSE /\ c_sent' = c_sent
                           /\ c_stream' = c_stream
                           /\ c_pc' = "returned"
                           /\ c_ret' = "err"
    /\ UNCHANGED <<overflow_checks, ww_vars, cli_vars, enc_vars, run_vars, c_req, c_mix, c_rec, c_rx,
                   c_reads, c_read_failed>>

\* capture: one pass of `while sample_queue.len() > block_align * chunk_size`:
\* pop a chunk byte by byte and send it; an empty queue while popping sends
\* Error, stops the stream and leaves the capture loop
CapChunk ==
    /\ c_pc = "drain"
    /\ LET n == chunk_len(get_blockalign(c_rec.wasapi_format))
       IN  /\ c_q > n
           /\ IF c_q >= n
              THEN \* every pop_front was Some: send AudioData(chunk)
                   /\ c_q' = c_q - n
                   /\ c_stream' = c_stream
                   /\ IF c_rx
                      THEN /\ c_sent' = Append(c_sent, [kind |-> "data", len |-> n])
                           /\ c_pc' = c_pc
                           /\ c_ret' = c_ret
                      ELSE /\ c_sent' = c_sent
                           /\ c_pc' = "returned"
                           /\ c_ret' = "err"
              ELSE \* a pop_front was None
                   /\ c_q' = 0
                   /\ IF c_rx
                      THEN /\ c_sent' = Append(c_sent, [kind |-> "error", len |-> 0])
                           /\ \E stop_ok \in BOOLEAN :
                                 /\ c_stream' = IF stop_ok THEN "stopped" ELSE c_stream
                                 /\ c_ret' = IF stop_ok THEN "ok" ELSE "err"
                           /\ c_pc' = "returned"
                      ELSE /\ c_sent' = c_sent
                           /\ c_stream' = c_stream
                           /\ c_pc' = "returned"
                           /\ c_ret' = "err"
    /\ UNCHANGED <<overflow_checks, ww_vars, cli_vars, enc_vars, run_vars, c_req, c_mix, c_rec, c_rx,
                   c_reads, c_read_failed>>

\* capture: capture_client.read_from_device_to_deque(&mut sample_queue)?
CapRead ==
    /\ c_pc = "drain"
    /\ c_q <= chunk_len(get_blockalign(c_rec.wasapi_format))
    /\ c_reads < MaxReads
    /\ c_reads' = c_reads + 1
    /\ \/ \E r \in ReadSizes(get_blockalign(c_rec.wasapi_format)) :
             /\ c_q' = c_q + r
             /\ c_pc' = "wait"
             /\ UNCHANGED <<c_read_failed, c_ret>>
       \/ /\ c_read_failed' = TRUE
          /\ c_pc' = "returned"
          /\ c_ret' = "err"
          /\ c_q' = c_q
    /\ UNCHANGED <<overflow_checks, ww_vars, cli_vars, enc_vars, run_vars, c_req, c_mix, c_rec,
                   c_stream, c_rx, c_sent>>

\* capture: if event_handle.wait_for_event(TIMEOUT).is_err()
\*              { self.client.stop_stream()?; break; }
CapWait ==
    /\ c_pc = "wait"
    /\ \/ /\ c_pc' = "drain"
          /\ UNCHANGED <<c_stream, c_ret>>
       \/ \E stop_ok \in BOOLEAN :
             /\ c_pc' = "returned"
             /\ c_stream' = IF stop_ok THEN "stopped" ELSE c_stream
             /\ c_ret' = IF stop_ok THEN "ok" ELSE "err"
    /\ UNCHANGED <<overflow_checks, ww_vars, cli_vars, enc_vars, run_vars, c_req, c_mix, c_rec, c_q,
                   c_rx, c_sent, c_reads, c_read_failed>>

\* the processing loop returns and drops the Receiver
CapReceiverDrop ==
    /\ c_pc \in {"drain", "wait"}
    /\ c_rx
    /\ c_rx' = FALSE
    /\ UNCHANGED <<overflow_checks, ww_vars, cli_vars, enc_vars, run_vars, c_pc, c_req, c_mix, c_rec,
                   c_q, c_stream, c_sent, c_reads, c_read_failed, c_ret>>

CapNext ==
    \/ CapCreate
    \/ CapSetup
    \/ CapChunk
    \/ CapRead
    \/ CapWait
    \/ CapReceiverDrop

SpecCapture == CapInit /\ [][CapNext]_vars

(***************************************************************************)
(* SpecCli: Args::file_name (cli.rs).  A String is a sequence of           *)
(* characters.                                                             *)
(***************************************************************************)
MaxName == 5

NameChars == {".", "w", "a", "v", "x"}

DOT_WAV == <<".", "w", "a", "v">>

\* str::ends_with
ends_with(str, suffix) ==
    /\ Len(str) >= Len(suffix)
    /\ SubSeq(str, Len(str) - Len(suffix) + 1, Len(str)) = suffix

\* mutant: ".wav" appended to every name
Mutant_file_name(name) == name \o DOT_WAV

\* Args::file_name
file_name(name) ==
    IF ~ends_with(name, DOT_WAV) THEN name \o DOT_WAV ELSE name

CliInit ==
    /\ EncIdle
    /\ RunIdle
    /\ CapIdle
    /\ WriterIdle
    /\ overflow_checks = FALSE
    /\ n_pc = "input"
    /\ n_name \in UNION {[1..n -> NameChars] : n \in 0..MaxName}
    /\ n_out = <<>>

\* args.file_name()
CliFileName ==
    /\ n_pc = "input"
    /\ n_pc' = "once"
    /\ n_out' = file_name(n_name)
    /\ UNCHANGED <<overflow_checks, enc_vars, run_vars, cap_vars, ww_vars, n_name>>

\* file_name() of an Args whose file_name is the name just returned
CliFileNameAgain ==
    /\ n_pc = "once"
    /\ n_pc' = "twice"
    /\ n_out' = file_name(n_out)
    /\ UNCHANGED <<overflow_checks, enc_vars, run_vars, cap_vars, ww_vars, n_name>>

CliNext == CliFileName \/ CliFileNameAgain

SpecCli == CliInit /\ [][CliNext]_vars

(***************************************************************************)
(* Claims about the format descriptor and the encoder (under SpecEnc)      *)
(***************************************************************************)
\* Rust's b[from..to] on a byte sequence
Slice(b, from, to) == SubSeq(b, from + 1, to)

\* sample_rate * (bit_depth / 8) * channel_count as a mathematical integer
ExactBytesPerSecond(f) ==
    MulLimbs(MulLimbs(f.sample_rate, bit_depth(f) \div 8, 0), f.num_channels, 0)

\* C3 as stated: for every format and payload length n the serialized header
\* holds RIFF, n + 36, WAVE, "fmt ", 16, type_code, channel_count,
\* sample_rate, bytes_per_second, block_alignment and bit_depth, little-endian,
\* at offsets 0, 4, 8, 12, 16, 20, 22, 24, 28, 32 and 34.
C3_HeaderLayout ==
    (e_pc = "header" /\ ~e_out.panic) =>
        LET b == e_out.bytes
        IN  /\ Slice(b, 0, 4) = RIFF
            /\ Widen(from_le_bytes(Slice(b, 4, 8)), 5) = AddLimbs(e_size, 36)
            /\ Slice(b, 8, 12) = WAVE
            /\ Slice(b, 12, 16) = FMT_
            /\ from_le_bytes(Slice(b, 16, 20)) = U32(16)
            /\ from_le_bytes(Slice(b, 20, 22)) = <<type_format_header(e_fmt)>>
            /\ from_le_bytes(Slice(b, 22, 24)) = <<e_fmt.num_channels>>
            /\ from_le_bytes(Slice(b, 24, 28)) = e_fmt.sample_rate
            /\ from_le_bytes(Slice(b, 28, 32)) = bytes_per_second(e_fmt).val
            /\ from_le_bytes(Slice(b, 32, 34)) = <<block_alignment(e_fmt)>>
            /\ from_le_bytes(Slice(b, 34, 36)) = <<bit_depth(e_fmt)>>

\* C4 as stated: for every payload p the bytes of WaveFile::create(p, format)
\* are 44 + |p| long, hold "data" at offset 36, |p| little-endian at offset 40
\* and p itself from offset 44; an empty payload gives 44 bytes with
\* file_size 36 and data size 0.  (Lengths and contents are compared over the
\* bytes written out; the size field is compared with the payload's len().)
C4_EncoderRoundTrip ==
    (e_pc = "file" /\ ~e_out.panic) =>
        LET b == e_out.bytes
            p == e_payload.bytes
        IN  /\ Len(b) = 44 + Len(p)
            /\ Slice(b, 36, 40) = DATA
            /\ Widen(from_le_bytes(Slice(b, 40, 44)), 4) = e_payload.len
            /\ Slice(b, 44, Len(b)) = p
            /\ e_payload.len = Usize(0) =>
                  /\ Len(b) = 44
                  /\ from_le_bytes(Slice(b, 4, 8)) = U32(36)
                  /\ from_le_bytes(Slice(b, 40, 44)) = U32(0)

\* C5 as stated: for every format with sample_rate > 0 and channel_count > 0,
\* bytes_per_second() = sample_rate * (bit_depth/8) * channel_count and
\* block_alignment() = (bit_depth/8) * channel_count.
C5_DerivedQuantities ==
    e_pc = "derived" =>
        /\ ~e_out.panic
        /\ Widen(e_out.bps, 4) = ExactBytesPerSecond(e_fmt)
        /\ e_out.ba = (e_out.bit_depth \div 8) * e_fmt.num_channels

\* C6: Int16 -> (16, 1), Int24 -> (24, 1), Int32 -> (32, 1), Float32 -> (32, 3)
\* is the (bit_depth, type_code) pair an AudioFormatInfo reports.
C6_BitDepthAndTypeCode ==
    e_pc = "derived" =>
        <<e_out.bit_depth, e_out.type_code>> =
            CASE e_fmt.format = "Int16" -> <<16, 1>>
              [] e_fmt.format = "Int24" -> <<24, 1>>
              [] e_fmt.format = "Int32" -> <<32, 1>>
              [] e_fmt.format = "Float32" -> <<32, 3>>

C6_Witness ==
    /\ e_pc = "derived"
    /\ e_fmt.format = "Float32"
    /\ e_out.type_code = 3
    /\ e_out.bit_depth = 32

(***************************************************************************)
(* Claims about one session (under Spec)                                   *)
(***************************************************************************)
RECURSIVE Concat(_)
\* the chunks of a sequence, joined in order
Concat(chunks) ==
    IF chunks = <<>> THEN <<>> ELSE Head(chunks) \o Concat(Tail(chunks))

Called(op) == \E i \in 1..Len(ops) : ops[i] = op

\* the chunks handed to WaveWriter::write, in call order
WrittenChunks == [i \in 1..Len(writes) |-> writes[i].data]

AllWritesOk == \A i \in 1..Len(writes) : writes[i].ret >= 0

\* position of the first Error message in the send history (0: none)
FirstError ==
    IF \E i \in 1..Len(sent) : sent[i].kind = "error"
    THEN CHOOSE i \in 1..Len(sent) :
            /\ sent[i].kind = "error"
            /\ \A j \in 1..(i - 1) : sent[j].kind = "data"
    ELSE 0

ErrorReceived == \E i \in 1..Len(received) : received[i].kind = "error"

\* the Data chunks sent before the first Error
ChunksBeforeError == [i \in 1..(FirstError - 1) |-> sent[i].bytes]

Finished == pc \in {"returned", "exited"}

\* C1 as stated: after open, writes c1..ck that each returned Ok, and a
\* commit that returned Ok, the destination file is 44 + |c1| + .. + |ck|
\* bytes long, its header decodes to the format given to open, and its data
\* section is c1 .. ck joined in write order.
C1_CommittedFile ==
    (Called("commit") /\ AllWritesOk) =>
        LET b == dest.data
            payload == Concat(WrittenChunks)
        IN  /\ dest.exists
            /\ Len(b) = 44 + Len(payload)
            /\ from_le_bytes(Slice(b, 24, 28)) = fmt.sample_rate
            /\ from_le_bytes(Slice(b, 22, 24)) = <<fmt.num_channels>>
            /\ from_le_bytes(Slice(b, 34, 36)) = <<bit_depth(fmt)>>
            /\ from_le_bytes(Slice(b, 20, 22)) = <<type_format_header(fmt)>>
            /\ Slice(b, 44, Len(b)) = payload

\* C2 as stated: once the loop has received an Error message, commit runs on
\* what was staged: the committed file holds every Data chunk sent before the
\* Error, RunState is false, and nothing sent after the Error is staged.
C2_ErrorStillCommits ==
    ErrorReceived =>
        /\ ~is_running
        /\ WrittenChunks = ChunksBeforeError
        /\ Finished => Called("commit") \/ Called("commit_err")
        /\ Called("commit") =>
              Slice(dest.data, 44, Len(dest.data)) = Concat(ChunksBeforeError)

\* C9 as stated: on every path that opened the staging writer, close() is
\* called exactly once, after commit(), also when commit() returned an error.
C9_CloseOnEveryPath ==
    (Finished /\ Called("open")) =>
        /\ Cardinality({i \in 1..Len(ops) : ops[i] \in {"close", "close_err"}}) = 1
        /\ \E i, j \in 1..Len(ops) :
              /\ i < j
              /\ ops[i] \in {"commit", "commit_err"}
              /\ ops[j] \in {"close", "close_err"}

\* C10 as stated: a WaveWriter::write that returns an I/O error is surfaced
\* to the caller of the processing loop, and no further chunk is accepted.
C10_WriteErrorSurfaced ==
    /\ \A i \in 1..Len(writes) : writes[i].ret < 0 => i = Len(writes)
    /\ (Finished /\ \E i \in 1..Len(writes) : writes[i].ret < 0) =>
           result = "err"

(***************************************************************************)
(* Claims about the capture loop (under SpecCapture)                       *)
(***************************************************************************)
\* C7: every Data chunk sent has a length that is a positive multiple of
\* block_alignment() of the format get_audio_format returns.
C7_ChunkAlignment ==
    \A i \in 1..Len(c_sent) :
        c_sent[i].kind = "data" =>
            /\ c_sent[i].len > 0
            /\ block_alignment(c_rec.audio_format) > 0
            /\ c_sent[i].len % block_alignment(c_rec.audio_format) = 0

\* two chunks sent by a stream whose sample size differs from the one the
\* negotiated format reports
C7_Witness ==
    /\ Len(c_sent) >= 2
    /\ c_sent[2].kind = "data"
    /\ get_blockalign(c_rec.wasapi_format) # block_alignment(c_rec.audio_format)

\* C8 as stated: when a device read fails, capture sends exactly one Error
\* message, nothing after it, and returns.
C8_ReadFailureSendsError ==
    (c_read_failed /\ c_pc = "returned") =>
        /\ Cardinality({i \in 1..Len(c_sent) : c_sent[i].kind = "error"}) = 1
        /\ c_sent[Len(c_sent)].kind = "error"

(***************************************************************************)
(* Claims about the destination file and the staging writer                *)
(***************************************************************************)
\* the complete file for a scratch file t and format f
CompleteFile(t, f) == WaveFile_bytes(WaveFile_create(Vec(t.data), f))

\* C11 as stated (under Spec): once commit has failed, whichever step of
\* WaveFile::write failed, the destination file does not exist or holds the
\* complete 44 + payload_len bytes, never a prefix only.
C11_AllOrNothing ==
    Called("commit_err") =>
        \/ ~dest.exists
        \/ /\ Len(dest.data) = 44 + Len(tmp.data)
           /\ dest.data = CompleteFile(tmp, fmt)

\* C12 (under SpecWriter): a commit that follows a successful commit with no
\* write in between leaves the scratch file as it was and, when it succeeds
\* too, leaves a destination file with the same bytes as the first.
C12_CommitIdempotent ==
    \A i \in 1..(Len(w_log) - 1) :
        (w_log[i].op = "commit" /\ w_log[i].ok /\ w_log[i + 1].op = "commit") =>
            /\ w_log[i + 1].tmp = w_log[i].tmp
            /\ w_log[i + 1].ok =>
                  /\ w_log[i + 1].dest = w_log[i].dest
                  /\ w_log[i + 1].dest.data = CompleteFile(w_log[i].tmp, w_fmt)

\* two successful commits in a row of a payload that was partly still in
\* the BufWriter's buffer at the first
C12_Witness ==
    /\ Len(w_log) = 5
    /\ w_log[2].op = "write" /\ w_log[2].ok
    /\ w_log[3].op = "write" /\ w_log[3].ok
    /\ w_log[3].tmp.data = <<>>
    /\ w_log[4].op = "commit" /\ w_log[4].ok
    /\ w_log[5].op = "commit" /\ w_log[5].ok
    /\ Len(w_log[5].dest.data) = 46

\* C13 (under SpecWriter): after close returned Ok the scratch file does not
\* exist, whatever writes and commits came before.
C13_CloseRemovesScratch ==
    \A i \in 1..Len(w_log) :
        (w_log[i].op = "close" /\ w_log[i].ok) => ~w_log[i].tmp.exists

\* close returned Ok after a write, a failed commit and a successful one,
\* and the scratch file existed until then
C13_Witness ==
    /\ Len(w_log) = 5
    /\ w_log[2].op = "write"
    /\ w_log[3].op = "commit" /\ ~w_log[3].ok
    /\ w_log[4].op = "commit" /\ w_log[4].ok /\ w_log[4].tmp.exists
    /\ w_log[5].op = "close" /\ w_log[5].ok /\ ~w_log[5].tmp.exists

(***************************************************************************)
(* Claims about the session: channel, processing loop, run and main        *)
(***************************************************************************)
IsPrefix(a, b) == Len(a) <= Len(b) /\ SubSeq(b, 1, Len(a)) = a

IsDataMessage(m) == m.kind = "data"

\* the chunks of the Data messages the capture thread has sent, in send order
SentChunks ==
    LET d == SelectSeq(sent, IsDataMessage)
    IN  [i \in 1..Len(d) |-> d[i].bytes]

\* the bytes staged: the scratch file and, after it, the BufWriter's buffer
Staged == tmp.data \o wr.buf

\* C14 as stated (under Spec): at all times the staged bytes are a prefix of
\* the Data chunks sent, joined in send order: nothing reordered, duplicated
\* or skipped while a later chunk is staged.
C14_StagedIsPrefix == IsPrefix(Staged, Concat(SentChunks))

\* C15 as stated (under Spec): one iteration of the processing loop receives
\* every message that is in the channel, so the channel is empty when the
\* loop goes back to checking RunState.
C15_IterationDrainsChannel ==
    [][(pc = "recv" /\ pc' = "check") => chan' = <<>>]_vars

\* C16 (under SpecLive): once RunState is false while the processing loop is
\* Running, the loop leaves Running and invokes commit, whatever the capture
\* thread does, as long as the main thread keeps being scheduled.
C16_StopLeadsToCommit ==
    (~is_running /\ pc \in {"check", "recv"}) ~> (pc = "commit")

\* commit reached after Ctrl-C while the capture thread is still running and
\* messages are still queued
C16_Witness ==
    /\ pc = "commit"
    /\ ~is_running
    /\ ~ErrorReceived
    /\ tx = "running"
    /\ chan # <<>>

\* C17 (under Spec): when capture source creation fails, run returns the
\* error with no capture thread spawned, no scratch file created and the
\* destination file neither created nor modified.
C17_CreateFailureWritesNothing ==
    (~created /\ pc \in {"returned", "exited"}) =>
        /\ result = "err"
        /\ tx = "unspawned"
        /\ sent = <<>>
        /\ ops = <<>>
        /\ ~tmp.exists
        /\ dest = [exists |-> FALSE, data |-> <<>>]

\* the process has exited after a failed creation
C17_Witness ==
    /\ ~created
    /\ pc = "exited"
    /\ exit_code = 1

\* a fatal condition occurred: creation failed, an Error message was
\* received, a staging write failed, or commit (flush, read back, final
\* file) failed
FatalCondition ==
    \/ ~created
    \/ ErrorReceived
    \/ \E i \in 1..Len(writes) : writes[i].ret < 0
    \/ Called("commit_err")

\* C18 as stated (under Spec): a session that ended on a fatal condition
\* made run return an error and the process exit with a non-zero status.
C18_FatalExitsNonZero ==
    (pc = "exited" /\ FatalCondition) =>
        /\ result = "err"
        /\ exit_code # 0

(***************************************************************************)
(* Claims about Args::file_name (under SpecCli)                            *)
(***************************************************************************)
\* the last four characters of str are ".wav"
HasWavExtension(str) ==
    /\ Len(str) >= 4
    /\ str[Len(str) - 3] = "."
    /\ str[Len(str) - 2] = "w"
    /\ str[Len(str) - 1] = "a"
    /\ str[Len(str)] = "v"

\* C19: the name returned ends with ".wav"; it is the input when the input
\* ends with ".wav" and the input followed by ".wav" otherwise; applied to
\* its own result it returns that result.
C19_FileNameNormalised ==
    n_pc \in {"once", "twice"} =>
        /\ HasWavExtension(n_out)
        /\ HasWavExtension(n_name) => n_out = n_name
        /\ ~HasWavExtension(n_name) => n_out = n_name \o <<".", "w", "a", "v">>

\* a name that ends in "wav" without the dot, normalised twice
C19_Witness ==
    /\ n_pc = "twice"
    /\ n_name = <<"x", "w", "a", "v">>
    /\ n_out = <<"x", "w", "a", "v", ".", "w", "a", "v">>

(***************************************************************************)
(* Claims about capture source creation (under SpecCapture)                *)
(***************************************************************************)
\* the (sample type, bit depth) pairs an AudioFormat can represent
SupportedPairs == {<<"Int", 16>>, <<"Int", 24>>, <<"Int", 32>>, <<"Float", 32>>}

\* C20 as stated: creation succeeds only when the (sample type, bit depth)
\* pair the device stream is initialised with is one of (Int,16), (Int,24),
\* (Int,32), (Float,32), so the AudioFormat reported by get_audio_format has
\* the bit depth of the device stream.
C20_CreateChecksNegotiatedPair ==
    c_pc \notin {"idle", "create", "create_failed"} =>
        /\ <<c_rec.wasapi_format.type, c_rec.wasapi_format.bits>> \in SupportedPairs
        /\ bit_depth(c_rec.audio_format) = c_rec.wasapi_format.bits

\* the processing loop is in its while loop (the session is Running)
InLoop == pc \in {"check", "recv"}

\* the capture thread has returned and its Sender is dropped
Disconnected == tx = "returned"

\* C21 as stated (under Spec): after the capture thread has exited and
\* dropped its sender, every receive attempt of the processing loop returns
\* with no message, no further bytes are staged, and the loop stays in
\* Running until RunState becomes false.
C21_AsStated ==
    [][(Disconnected /\ InLoop) =>
          /\ received' = received
          /\ Staged' = Staged
          /\ (pc = "recv" /\ pc' # pc) => (pc' = "check" /\ is_running' = is_running)
          /\ is_running => InLoop']_vars

\* C21, corrected (under Spec): after the capture thread has exited and
\* dropped its sender and the messages it had queued have been received,
\* a receive attempt never blocks, returns with no message and is not taken
\* for an error: nothing is received or staged, RunState is left alone, and
\* the loop stays in Running until RunState becomes false.
C21_DisconnectedIsNotAnError ==
    /\ [](pc = "recv" => ENABLED LoopRecv)
    /\ [][(Disconnected /\ chan = <<>> /\ InLoop) =>
             /\ chan' = <<>>
             /\ received' = received
             /\ Staged' = Staged
             /\ (pc = "recv" /\ pc' # pc) =>
                   (pc' = "check" /\ is_running' = is_running)
             /\ is_running => InLoop']_vars

\* a receive attempt is due on a channel that is disconnected and empty,
\* after a chunk was received and staged, while RunState is still true
C21_Witness ==
    /\ pc = "recv"
    /\ Disconnected
    /\ chan = <<>>
    /\ is_running
    /\ Len(received) >= 1
    /\ Staged # <<>>

\* C22 as stated (under Spec): the channel is bounded: some fixed bound
\* limits the number of queued messages whatever the producer does.  Checked
\* for the bound MaxSend - 1, with MaxSend the number of sends the capture
\* thread makes: a bounded channel of any capacity below MaxSend keeps the
\* queue shorter than the number of messages the producer sends.
C22_ChannelBounded == Len(chan) < MaxSend

\* C23 as stated (under Spec): while every WaveWriter::write has returned
\* Ok, the staged bytes are the chunks written, joined in order, with none
\* dropped; bytes_written is the sum of their lengths; and that is the
\* length of the payload a successful commit has read back.
C23_WriteStagesWholeChunk ==
    AllWritesOk =>
        /\ Staged = Concat(WrittenChunks)
        /\ wr.bytes_written = Len(Concat(WrittenChunks))
        /\ Called("commit") => Len(tmp.data) = Len(Concat(WrittenChunks))

(***************************************************************************)
(* Claims about the widths of the encoder's arithmetic (under SpecEnc)     *)
(***************************************************************************)
\* C24 as stated: for every payload length n, 2^32 - 36 and more included,
\* the 32-bit file_size field decodes to n + 36 and the data record's 32-bit
\* size field decodes to n: neither wraps around modulo 2^32.
C24_SizeFieldsDoNotWrap ==
    /\ (e_pc = "header" /\ ~e_out.panic) =>
          Widen(from_le_bytes(Slice(e_out.bytes, 4, 8)), 5)
             = AddLimbs(e_size, BYTES_IN_HEADER - 8)
    /\ (e_pc = "file" /\ ~e_out.panic) =>
          /\ Widen(from_le_bytes(Slice(e_out.bytes, 4, 8)), 5)
                = AddLimbs(e_payload.len, BYTES_IN_HEADER - 8)
          /\ Widen(from_le_bytes(Slice(e_out.bytes, 40, 44)), 4) = e_payload.len

\* C25 as stated: for every format with sample_rate in 1..2^32-1 and
\* channel_count in 1..255, bytes_per_second() and block_alignment() complete
\* with no overflow in their 32-bit (resp. 16-bit) products and return the
\* exact value.
C25_DerivationsTotal ==
    e_pc = "derived" =>
        LET a == u32_mul(e_fmt.sample_rate, bit_depth(e_fmt))
            b == u32_mul(a.val, e_fmt.num_channels)
        IN  /\ ~a.overflow
            /\ ~b.overflow
            /\ ~e_out.panic
            /\ MulLimbs(Widen(e_out.bps, 4), 8, 0)
                  = MulLimbs(MulLimbs(e_fmt.sample_rate, bit_depth(e_fmt), 0)
                                \o <<0>>, e_fmt.num_channels, 0)
            /\ bit_depth(e_fmt) * e_fmt.num_channels < Limb
            /\ e_out.ba * 8 = bit_depth(e_fmt) * e_fmt.num_channels

\* the processing loop's step that receives an Error message
LoopReceivesError ==
    /\ pc = "recv"
    /\ pc' = "check"
    /\ chan # <<>>
    /\ Head(chan).kind = "error"
    /\ chan' = Tail(chan)

\* C26 (under Spec): RunState is written only by the interrupt handler and
\* by the processing loop on receiving an Error message, and only to false:
\* once false it is never true again, and the handler's write leaves the
\* channel, the staging buffer and file, the destination file and the rest
\* of the session as they were.
C26_RunStateOnlyCleared ==
    [][/\ ~is_running => ~is_running'
       /\ is_running' # is_running =>
             /\ handler_set \/ LoopReceivesError
             /\ \/ LoopReceivesError
                \/ UNCHANGED <<pc, chan, tx, wr, tmp, dest, sent, received,
                               writes, ops, result, exit_code, handler_set,
                               created, fmt>>]_vars

\* the handler has set RunState to false (no Error message was received)
\* while messages were queued and bytes were staged
C26_Witness ==
    /\ ~is_running
    /\ ~ErrorReceived
    /\ handler_set
    /\ pc = "recv"
    /\ chan # <<>>
    /\ Staged # <<>>

\* C27 (under Spec): the loop leaves Running only when RunState is false:
\* commit is not invoked (and has not been) while RunState is true, and no
\* step taken while RunState is true leaves the loop, be it the capture
\* thread returning, a receive attempt on an empty or disconnected channel,
\* or a staging write that failed.
C27_LeavesRunningOnlyWhenStopped ==
    /\ []((pc \in {"commit", "close"} \/ Called("commit") \/ Called("commit_err"))
             => ~is_running)
    /\ [][(InLoop /\ is_running) => InLoop']_vars

\* RunState is still true and the loop still polls after the capture thread
\* returned, the channel was emptied and a staging write failed
C27_Witness ==
    /\ is_running
    /\ pc = "recv"
    /\ Disconnected
    /\ chan = <<>>
    /\ \E i \in 1..Len(writes) : writes[i].ret < 0

(***************************************************************************)
(* Claims about the device stream (under SpecCapture)                      *)
(***************************************************************************)
\* C28 as stated: whenever capture returns after start_stream succeeded, on
\* an event timeout, on a device read failure or on a failed send, the
\* device stream has been stopped.
C28_StreamStoppedOnReturn ==
    (c_pc = "returned" /\ c_stream # "idle") => c_stream = "stopped"

\* C29 (under Spec): once RunState is false while the loop is Running, it
\* stays false, and the loop handles at most one more channel message, and
\* stages at most one more chunk, before it is at commit: at the loop test
\* the next step of the loop goes to commit and handles nothing; at the
\* receive attempt at most one message is taken and the loop test follows.
C29_AtMostOneMessageAfterStop ==
    [][(~is_running /\ InLoop) =>
          /\ ~is_running'
          /\ pc = "check" =>
                /\ pc' \in {"check", "commit"}
                /\ received' = received
                /\ writes' = writes
          /\ pc = "recv" =>
                \/ pc' = "recv" /\ received' = received /\ writes' = writes
                \/ /\ pc' = "check"
                   /\ Len(received') <= Len(received) + 1
                   /\ Len(writes') <= Len(writes) + 1]_vars

\* the loop is at commit after an interrupt, having handled one message,
\* with two more still queued
C29_Witness ==
    /\ pc = "commit"
    /\ ~is_running
    /\ ~ErrorReceived
    /\ Len(received) = 1
    /\ Len(chan) = 2

\* C30 (under Spec): the calls on the staging writer come in the order open,
\* writes, at most one commit, at most one close: open is the first call and
\* made once, nothing follows a failed open, commit is the second call and
\* close the third and last; a write is made only between open and commit;
\* and the scratch file exists whenever commit is about to read it.
C30_WriterCallOrder ==
    /\ [](/\ Len(ops) <= 3
          /\ \A i \in 1..Len(ops) : ops[i] \in {"open", "open_err"} <=> i = 1
          /\ Len(ops) >= 2 =>
                ops[1] = "open" /\ ops[2] \in {"commit", "commit_err"}
          /\ Len(ops) = 3 => ops[3] \in {"close", "close_err"}
          /\ writes # <<>> => ops # <<>> /\ ops[1] = "open"
          /\ pc = "commit" => tmp.exists)
    /\ [][writes' # writes => (ops = <<"open">> /\ ops' = ops)]_vars

\* a whole session: open, two writes, commit, close
C30_Witness ==
    /\ pc = "exited"
    /\ ops = <<"open", "commit", "close">>
    /\ Len(writes) = 2
    /\ ~tmp.exists

\* C31 (under SpecCapture): a chunk is assembled only while the sample queue
\* holds more than block_align * chunk_size bytes, so the pops never find it
\* empty: no Error message is ever sent by the chunk loop, every message
\* sent is a Data chunk of block_align * chunk_size bytes taken from a queue
\* that held more, and at least one byte stays queued after it.
C31_ChunkLoopNeverStarves ==
    /\ [](\A i \in 1..Len(c_sent) : c_sent[i].kind = "data")
    /\ [][c_sent' # c_sent =>
             LET n == chunk_len(get_blockalign(c_rec.wasapi_format))
             IN  /\ c_q > n
                 /\ c_sent' = Append(c_sent, [kind |-> "data", len |-> n])
                 /\ c_q' = c_q - n
                 /\ c_q' >= 1]_vars

\* a chunk was sent from a queue that held exactly one byte more than the
\* chunk: one byte is left
C31_Witness ==
    /\ c_pc = "drain"
    /\ Len(c_sent) = 1
    /\ c_sent[1].kind = "data"
    /\ c_q = 1

====
